---- MODULE Spec2Model ----
(***************************************************************************)
(* Model of optuna_graph_lessconfig.py: read_dataset (index partition,     *)
(* per-sample graph cache, target normalisation) and objective (per-model  *)
(* epoch loop with early stopping, test evaluation, result manifest).      *)
(*                                                                         *)
(* Floating-point values are fixed-point integers in units of 1/FixedPoint.*)
(* A fraction such as 0.1 is the pair <<1, 10>>.  Python lists are         *)
(* sequences; list positions are 1-based here, sample indices stay 0-based.*)
(***************************************************************************)
EXTENDS Integers, Sequences, FiniteSets, TLC

\* ---------------------------------------------------------------- bounds
MaxSamples == 4
MaxEpochs == 4
MaxPatience == 2
FixedPoint == 10
MaxMissing == 3

\* ------------------------------------------------------- generic helpers
Min(a, b) == IF a < b THEN a ELSE b

Abs(x) == IF x < 0 THEN 0 - x ELSE x

Range(s) == { s[k] : k \in DOMAIN s }

NoDuplicates(s) == \A a, b \in DOMAIN s : s[a] = s[b] => a = b

RECURSIVE SeqSum(_)
SeqSum(s) == IF s = <<>> THEN 0 ELSE Head(s) + SeqSum(Tail(s))

ISqrt(n) == CHOOSE r \in 0..n : r * r <= n /\ n < (r + 1) * (r + 1)

\* range(n) as a list
PyRange(n) == [k \in 1..n |-> k - 1]

\* s[a:b] for 0 <= a, 0 <= b, with Python's clamping at len(s)
Slice(s, a, b) == SubSeq(s, Min(a, Len(s)) + 1, Min(b, Len(s)))

\* s[a:]
SliceFrom(s, a) == Slice(s, a, Len(s))

\* np.int replaced by a rounding up
NpIntCeil(f, n) == (f[1] * n + f[2] - 1) \div f[2]

\* np.int(f * n) for a fraction f = <<num, den>> >= 0: truncation
NpInt(f, n) == (f[1] * n) \div f[2]

\* the outcomes of random.shuffle(s): every permutation of s
Shuffles(s) ==
    { [k \in 1..Len(s) |-> s[p[k]]] :
        p \in { q \in [1..Len(s) -> 1..Len(s)] :
                  \A a, b \in 1..Len(s) : q[a] = q[b] => a = b } }

\* an ascending list of the elements of a set of integers
RECURSIVE SortedSeq(_)
SortedSeq(S) ==
    IF S = {} THEN <<>>
    ELSE LET lo == CHOOSE x \in S : \A y \in S : x <= y
         IN  <<lo>> \o SortedSeq(S \ {lo})

\* ------------------------------------------------------------- variables
VARIABLES
    pc,                 \* position of the script
    error,              \* the exception that ended the run, "" if none
    N_SAMPLES, NORMALIZE_TARGET, OVERWRITE_PICKLES, UNSEEN_REGION,
    run_parameters,     \* the module-level dict
    train_perc,         \* argument of read_dataset
    pickle_files,       \* {i}-dihedrals-graph.pickle: i -> graph, present ones
    json_files,         \* the set of i whose {i}.json exists
    target_file,        \* [exists, lines]
    left_json, right_json,  \* [exists, data]
    indexes, train_ind, validation_ind, test_ind,
    i,                  \* loop variable of the loading loop
    graph_samples, target, target_mean, target_std, dataset,
    m,                  \* number of (model, hyperparameters) pairs consumed
    seed, hyperparameters, model, stopping,
    epoch,              \* i + 1 of the epoch loop, 0 before the first epoch
    pos,                \* items consumed by the running inner for loop
    val_losses, predictions, errors, mae,
    results,            \* the result.json documents written, in order
    built,              \* history: samples the graph constructor was called for
    written,            \* history: samples whose pickle was dumped
    stepped,            \* history: sample indices given an optimizer step this epoch
    evaluated,          \* history: sample indices forwarded without a step this epoch
    val_history,        \* history: validation losses checked for this model
    epochs_actual,      \* history: epochs each finished model ran
    phase               \* history: state of the training state machine

cfgVars == <<N_SAMPLES, NORMALIZE_TARGET, OVERWRITE_PICKLES, UNSEEN_REGION, train_perc>>
fsVars == <<pickle_files, json_files, target_file, left_json, right_json>>
splitVars == <<indexes, train_ind, validation_ind, test_ind>>
loadVars == <<i, graph_samples, built, written>>
targetVars == <<target, target_mean, target_std, dataset>>
modelVars == <<m, seed, hyperparameters, model, stopping>>
loopVars == <<epoch, pos, val_losses, predictions, errors, mae>>
histVars == <<stepped, evaluated, val_history, epochs_actual, phase>>

vars == <<pc, error, cfgVars, run_parameters, fsVars, splitVars, loadVars,
          targetVars, modelVars, loopVars, results, histVars>>

\* ------------------------------------------------ read_dataset: partition
\* SplitAll with the validation boundary not offset by the training boundary
SplitAllNoOffset(shuffled, dataset_perc, train_split, validation_split) ==
    LET kept    == Slice(shuffled, 0, NpInt(dataset_perc, Len(shuffled)))
        split   == NpInt(train_split, Len(kept))
        split_2 == NpInt(validation_split, Len(kept))
    IN  [indexes        |-> kept,
         train_ind      |-> Slice(kept, 0, split),
         validation_ind |-> Slice(kept, split, split_2),
         test_ind       |-> SliceFrom(kept, split_2)]

\* lines 91-98: shuffle everything, cut to dataset_perc, split sequentially
SplitAll(shuffled, dataset_perc, train_split, validation_split) ==
    LET kept    == Slice(shuffled, 0, NpInt(dataset_perc, Len(shuffled)))
        split   == NpInt(train_split, Len(kept))
        split_2 == split + NpInt(validation_split, Len(kept))
    IN  [indexes        |-> kept,
         train_ind      |-> Slice(kept, 0, split),
         validation_ind |-> Slice(kept, split, split_2),
         test_ind       |-> SliceFrom(kept, split_2)]

\* SplitRegion with the training set taken before the region is known to be
\* held out: every sample is trained on
SplitRegionTrainsAll(n, shuffled) ==
    LET split == NpInt(<<1, 2>>, Len(shuffled))
    IN  [indexes        |-> shuffled,
         train_ind      |-> PyRange(n),
         validation_ind |-> Slice(shuffled, 0, split),
         test_ind       |-> SliceFrom(shuffled, split)]

\* lines 84-89: train on everything outside the region, halve the region
SplitRegion(n, shuffled) ==
    LET split == NpInt(<<1, 2>>, Len(shuffled))
    IN  [indexes        |-> shuffled,
         train_ind      |-> SelectSeq(PyRange(n), LAMBDA x : x \notin Range(shuffled)),
         validation_ind |-> Slice(shuffled, 0, split),
         test_ind       |-> SliceFrom(shuffled, split)]

InstallSplit(s) ==
    /\ indexes' = s.indexes
    /\ train_ind' = s.train_ind
    /\ validation_ind' = s.validation_ind
    /\ test_ind' = s.test_ind

Abort(what) ==
    /\ pc' = "aborted"
    /\ error' = what

PartitionAll ==
    /\ pc = "partition"
    /\ UNSEEN_REGION = "None"
    /\ run_parameters' = [run_parameters EXCEPT !["train_split"] = train_perc]
    /\ \E shuffled \in Shuffles(PyRange(N_SAMPLES)) :
         InstallSplit(SplitAll(shuffled, run_parameters["dataset_perc"],
                               train_perc, run_parameters["validation_split"]))
    /\ pc' = "load"
    /\ UNCHANGED <<error, cfgVars, fsVars, loadVars, targetVars, modelVars,
                   loopVars, results, histVars>>

PartitionRegion ==
    /\ pc = "partition"
    /\ UNSEEN_REGION # "None"
    /\ left_json.exists /\ right_json.exists
    /\ run_parameters' = [run_parameters EXCEPT !["train_split"] = train_perc]
    /\ LET region == IF UNSEEN_REGION = "left" THEN left_json.data ELSE right_json.data
       IN  \E shuffled \in Shuffles(region) :
             InstallSplit(SplitRegion(N_SAMPLES, shuffled))
    /\ pc' = "load"
    /\ UNCHANGED <<error, cfgVars, fsVars, loadVars, targetVars, modelVars,
                   loopVars, results, histVars>>

PartitionRegionMissing ==
    /\ pc = "partition"
    /\ UNSEEN_REGION # "None"
    /\ ~(left_json.exists /\ right_json.exists)
    /\ run_parameters' = [run_parameters EXCEPT !["train_split"] = train_perc]
    /\ Abort(IF ~left_json.exists THEN "left.json" ELSE "right.json")
    /\ UNCHANGED <<cfgVars, fsVars, splitVars, loadVars, targetVars, modelVars,
                   loopVars, results, histVars>>

\* ----------------------------------------- read_dataset: the loading loop
\* mol2graph.get_richgraph + get_central_overlap_graph on {i}.json
BuildGraph(k) == [sample |-> k, origin |-> "json", normalized |-> FALSE]

\* what a pickle written by an earlier run holds
CachedGraph(k) == [sample |-> k, origin |-> "pickle", normalized |-> FALSE]

\* UsesPickle with the OVERWRITE_PICKLES test left out
UsesPickleIgnoresOverwrite(k) == k \in DOMAIN pickle_files

\* lines 103-107, taken when the try block succeeds
UsesPickle(k) == ~OVERWRITE_PICKLES /\ k \in DOMAIN pickle_files

LoadCached ==
    /\ pc = "load"
    /\ i < N_SAMPLES
    /\ UsesPickle(i)
    /\ graph_samples' = Append(graph_samples, pickle_files[i])
    /\ i' = i + 1
    /\ UNCHANGED <<pc, error, cfgVars, run_parameters, fsVars, splitVars, built,
                   written, targetVars, modelVars, loopVars, results, histVars>>

\* lines 109-119: FileNotFoundError caught, graph rebuilt from {i}.json
LoadRebuild ==
    /\ pc = "load"
    /\ i < N_SAMPLES
    /\ ~UsesPickle(i)
    /\ i \in json_files
    /\ LET debruijn == BuildGraph(i)
       IN  /\ built' = built \cup {i}
           /\ IF OVERWRITE_PICKLES
              THEN /\ pickle_files' = [k \in DOMAIN pickle_files \cup {i} |->
                                         IF k = i THEN debruijn ELSE pickle_files[k]]
                   /\ written' = written \cup {i}
              ELSE UNCHANGED <<pickle_files, written>>
           /\ graph_samples' = Append(graph_samples, debruijn)
    /\ i' = i + 1
    /\ UNCHANGED <<pc, error, cfgVars, run_parameters, json_files, target_file,
                   left_json, right_json, splitVars, targetVars, modelVars,
                   loopVars, results, histVars>>

\* LoadMissingJson with the sample skipped instead of the error propagating
LoadMissingJsonSkips ==
    /\ pc = "load"
    /\ i < N_SAMPLES
    /\ ~UsesPickle(i)
    /\ i \notin json_files
    /\ i' = i + 1
    /\ UNCHANGED <<pc, error, cfgVars, run_parameters, fsVars, splitVars,
                   graph_samples, built, written, targetVars, modelVars, loopVars,
                   results, histVars>>

\* line 110 raises inside the except block: nothing catches it
LoadMissingJson ==
    /\ pc = "load"
    /\ i < N_SAMPLES
    /\ ~UsesPickle(i)
    /\ i \notin json_files
    /\ Abort("json")
    /\ UNCHANGED <<cfgVars, run_parameters, fsVars, splitVars, loadVars,
                   targetVars, modelVars, loopVars, results, histVars>>

\* ------------------------------------------------ read_dataset: the targets
\* line 122: one float per line, cut to N_SAMPLES
ParseTarget(lines, n) == [k \in 1..Min(n, Len(lines)) |-> lines[k] * FixedPoint]

\* torch.mean(target, dim=0)
TargetMean(t) == SeqSum(t) \div Len(t)

\* torch.std(target, dim=0): the unbiased estimator
TargetStd(t) ==
    LET n  == Len(t)
        s1 == SeqSum(t)
        s2 == SeqSum([k \in 1..n |-> t[k] * t[k]])
    IN  ISqrt((n * s2 - s1 * s1) \div (n * (n - 1)))

\* lines 127-132: the statistics the code takes from a parsed target vector
TargetStats(t) ==
    IF NORMALIZE_TARGET
    THEN [mean |-> TargetMean(t), std |-> TargetStd(t)]
    ELSE [mean |-> 0, std |-> FixedPoint]

\* line 132
Standardize(t, mean, std) == [k \in 1..Len(t) |-> ((t[k] - mean) * FixedPoint) \div std]

ReadTarget ==
    /\ pc = "load"
    /\ i = N_SAMPLES
    /\ target_file.exists
    /\ LET t     == ParseTarget(target_file.lines, N_SAMPLES)
           stats == TargetStats(t)
       IN  /\ target_mean' = stats.mean
           /\ target_std' = stats.std
           /\ target' = IF NORMALIZE_TARGET
                        THEN Standardize(t, stats.mean, stats.std)
                        ELSE t
    /\ pc' = "assemble"
    /\ UNCHANGED <<error, cfgVars, run_parameters, fsVars, splitVars, loadVars,
                   dataset, modelVars, loopVars, results, histVars>>

TargetMissing ==
    /\ pc = "load"
    /\ i = N_SAMPLES
    /\ ~target_file.exists
    /\ Abort("target")
    /\ UNCHANGED <<cfgVars, run_parameters, fsVars, splitVars, loadVars,
                   targetVars, modelVars, loopVars, results, histVars>>

\* ----------------------------------------------- read_dataset: the records
NORMALIZE_DATA == TRUE

\* helpers.scale.normalize(samples, train_ind, False)
normalize(samples, train) == [k \in 1..Len(samples) |-> [samples[k] EXCEPT !.normalized = TRUE]]

\* lines 134-146; dataset[k + 1] is the record of sample k
Assemble ==
    /\ pc = "assemble"
    /\ LET samples == IF NORMALIZE_DATA THEN normalize(graph_samples, train_ind)
                      ELSE graph_samples
       IN  dataset' = [k \in 1..Len(samples) |-> [x |-> samples[k], y |-> target[k]]]
    /\ pc' = "returned"
    /\ UNCHANGED <<error, cfgVars, run_parameters, fsVars, splitVars, loadVars,
                   target, target_mean, target_std, modelVars, loopVars, results,
                   histVars>>

\* ------------------------------------------------- objective: the models
\* not-a-number, the mean of an empty list; every real loss is >= 0
NaN == 0 - 1

\* a < b on floats: false as soon as one side is NaN
Less(a, b) == a # NaN /\ b # NaN /\ a < b

\* line 208; read_dataset is entered with this argument
Objective ==
    /\ pc = "objective"
    /\ seed' = 13000
    /\ pc' = "partition"
    /\ UNCHANGED <<error, cfgVars, run_parameters, fsVars, splitVars, loadVars,
                   targetVars, m, hyperparameters, model, stopping, loopVars,
                   results, histVars>>

\* define_linear_model: one LinearNet per entry of [1, 4]
LinearLayers == <<1, 4>>

LinearHyperparameters(layer) ==
    [nodes1 |-> 65, nodes2 |-> 340, nodes3 |-> 441, nodes4 |-> 220, layers |-> layer]

\* the values a model's parameters range over; a model predicts its parameter
Weights == {0, FixedPoint}

\* model(dataset[j]): LinearNet.forward on one record
Forward(w, record) == w

\* helpers.EarlyStopping: EarlyStopping(patience)
EarlyStopping(patience) ==
    [patience |-> patience, counter |-> 0, has_best |-> FALSE, best_score |-> NaN]

\* helpers.EarlyStopping: check(score), the new object and the returned flag
EarlyStoppingCheck(st, score) ==
    IF ~st.has_best \/ Less(score, st.best_score)
    THEN [stopping |-> [st EXCEPT !.has_best = TRUE, !.best_score = score, !.counter = 0],
          stop     |-> FALSE]
    ELSE [stopping |-> [st EXCEPT !.counter = st.counter + 1],
          stop     |-> st.counter + 1 >= st.patience]

\* NewStopping with the policy object built once, before the loop over models
NewStoppingShared(old, patience) ==
    IF old.patience = 0 THEN EarlyStopping(patience) ELSE old

\* line 213: the policy object the next model trains with
NewStopping(old, patience) == EarlyStopping(patience)

\* line 210: the generator is created once read_dataset has returned
DefineModels ==
    /\ pc = "returned"
    /\ m' = 0
    /\ pc' = "models"
    /\ UNCHANGED <<error, cfgVars, run_parameters, fsVars, splitVars, loadVars,
                   targetVars, seed, hyperparameters, model, stopping, loopVars,
                   results, histVars>>

\* lines 210-222: the next (model, hyperparameters) pair
NextModel ==
    /\ pc = "models"
    /\ m < Len(LinearLayers)
    /\ m' = m + 1
    /\ seed' = seed + 1
    /\ hyperparameters' = LinearHyperparameters(LinearLayers[m + 1])
    /\ \E w \in Weights : model' = w
    /\ stopping' = NewStopping(stopping, run_parameters["patience"])
    /\ epoch' = 0
    /\ pos' = 0
    /\ stepped' = <<>>
    /\ evaluated' = <<>>
    /\ val_history' = <<>>
    /\ phase' = "Idle"
    /\ pc' = "epoch"
    /\ UNCHANGED <<error, cfgVars, run_parameters, fsVars, splitVars, loadVars,
                   targetVars, val_losses, predictions, errors, mae, results,
                   epochs_actual>>

\* the generator is exhausted: objective returns
Finish ==
    /\ pc = "models"
    /\ m = Len(LinearLayers)
    /\ pc' = "done"
    /\ UNCHANGED <<error, cfgVars, run_parameters, fsVars, splitVars, loadVars,
                   targetVars, modelVars, loopVars, results, histVars>>

\* ---------------------------------------------- objective: the epoch loop
\* lines 265-266, entered from both exits of the epoch loop
EnterTest ==
    /\ predictions' = <<>>
    /\ errors' = <<>>
    /\ pos' = 0
    /\ evaluated' = <<>>
    /\ epochs_actual' = Append(epochs_actual, epoch)
    /\ pc' = "test"

\* lines 225-228: model.train(), the in-place reshuffle
BeginEpoch ==
    /\ pc = "epoch"
    /\ epoch < run_parameters["epochs"]
    /\ epoch' = epoch + 1
    /\ \E shuffled \in Shuffles(train_ind) : train_ind' = shuffled
    /\ pos' = 0
    /\ stepped' = <<>>
    /\ evaluated' = <<>>
    /\ phase' = "Training"
    /\ pc' = "train"
    /\ UNCHANGED <<error, cfgVars, run_parameters, fsVars, indexes, validation_ind,
                   test_ind, loadVars, targetVars, modelVars, val_losses,
                   predictions, errors, mae, results, val_history, epochs_actual>>

\* range(epochs) is exhausted
ExhaustBudget ==
    /\ pc = "epoch"
    /\ epoch >= run_parameters["epochs"]
    /\ phase' = "Completed"
    /\ EnterTest
    /\ UNCHANGED <<error, cfgVars, run_parameters, fsVars, splitVars, loadVars,
                   targetVars, modelVars, epoch, val_losses, mae, results,
                   stepped, val_history>>

\* TrainList with every kept index trained on
TrainListAllKept == indexes

\* the list the inner training loop walks (line 229)
TrainList == train_ind

\* lines 229-239: forward, loss, backward, optimizer.step() on one sample.
\* The step of the momentum optimizer may move the parameters anywhere in
\* Weights; train_losses only feeds the printed epoch summary and is left out.
TrainStep ==
    /\ pc = "train"
    /\ pos < Len(TrainList)
    /\ LET j == TrainList[pos + 1]
       IN  stepped' = Append(stepped, j)
    /\ \E w \in Weights : model' = w
    /\ pos' = pos + 1
    /\ UNCHANGED <<pc, error, cfgVars, run_parameters, fsVars, splitVars, loadVars,
                   targetVars, m, seed, hyperparameters, stopping, epoch,
                   val_losses, predictions, errors, mae, results, evaluated,
                   val_history, epochs_actual, phase>>

\* lines 241-246: the training loop is over, model.eval()
BeginValidation ==
    /\ pc = "train"
    /\ pos >= Len(TrainList)
    /\ val_losses' = <<>>
    /\ pos' = 0
    /\ phase' = "Validating"
    /\ pc' = "validate"
    /\ UNCHANGED <<error, cfgVars, run_parameters, fsVars, splitVars, loadVars,
                   targetVars, modelVars, epoch, predictions, errors, mae,
                   results, stepped, evaluated, val_history, epochs_actual>>

\* what a forward pass under torch.no_grad() / model.eval() leaves of the model
EvalModel(w) == w

\* lines 249-252: one validation sample
ValidationStep ==
    /\ pc = "validate"
    /\ pos < Len(validation_ind)
    /\ LET j == validation_ind[pos + 1]
           y_pred == Forward(model, dataset[j + 1])
       IN  /\ val_losses' = Append(val_losses, Abs(y_pred - dataset[j + 1].y))
           /\ evaluated' = Append(evaluated, j)
    /\ model' = EvalModel(model)
    /\ pos' = pos + 1
    /\ UNCHANGED <<pc, error, cfgVars, run_parameters, fsVars, splitVars, loadVars,
                   targetVars, m, seed, hyperparameters, stopping, epoch,
                   predictions, errors, mae, results, stepped, val_history,
                   epochs_actual, phase>>

\* lines 254-256: the mean validation loss, de-normalised
ValLoss ==
    IF val_losses = <<>> THEN NaN
    ELSE IF NORMALIZE_TARGET
         THEN (SeqSum(val_losses) * target_std) \div (Len(val_losses) * FixedPoint)
         ELSE SeqSum(val_losses) \div Len(val_losses)

\* line 260-263: does the loop break after this check
Breaks(stop) == stop

\* lines 254-263: the early-stopping check that ends every epoch
CheckStopping ==
    /\ pc = "validate"
    /\ pos >= Len(validation_ind)
    /\ LET val_loss == ValLoss
           checked  == EarlyStoppingCheck(stopping, val_loss)
       IN  /\ stopping' = checked.stopping
           /\ val_history' = Append(val_history, val_loss)
           /\ IF Breaks(checked.stop)
              THEN /\ run_parameters' =
                        [k \in DOMAIN run_parameters \cup {"epochs_run"} |->
                           IF k = "epochs_run" THEN epoch ELSE run_parameters[k]]
                   /\ phase' = "StoppedEarly"
                   /\ EnterTest
              ELSE /\ pc' = "epoch"
                   /\ UNCHANGED <<run_parameters, phase, predictions, errors, pos,
                                  evaluated, epochs_actual>>
    /\ UNCHANGED <<error, cfgVars, fsVars, splitVars, loadVars, targetVars, m, seed,
                   hyperparameters, model, epoch, val_losses, mae, results,
                   stepped>>

\* ------------------------------------------- objective: test and report
\* the list the test loop walks (line 267)
TestList == test_ind

\* line 270: the signed error of one prediction
SignedError(prediction, y) == prediction - y

\* lines 267-272: one test sample
TestStep ==
    /\ pc = "test"
    /\ pos < Len(TestList)
    /\ LET j == TestList[pos + 1]
           prediction == Forward(model, dataset[j + 1])
       IN  /\ predictions' = Append(predictions, prediction)
           /\ errors' = Append(errors, SignedError(prediction, dataset[j + 1].y))
           /\ evaluated' = Append(evaluated, j)
    /\ model' = EvalModel(model)
    /\ pos' = pos + 1
    /\ UNCHANGED <<pc, error, cfgVars, run_parameters, fsVars, splitVars, loadVars,
                   targetVars, m, seed, hyperparameters, stopping, epoch,
                   val_losses, mae, results, stepped, val_history, epochs_actual,
                   phase>>

\* MeanAbsoluteError with np.absolute left out
MeanSignedError(errs) ==
    IF errs = <<>> THEN NaN
    ELSE LET total == SeqSum(errs)
         IN  IF NORMALIZE_TARGET
             THEN (total * target_std) \div (Len(errs) * FixedPoint)
             ELSE total \div Len(errs)

\* lines 275-277: np.absolute(errors).mean(), de-normalised
MeanAbsoluteError(errs) ==
    IF errs = <<>> THEN NaN
    ELSE LET total == SeqSum([k \in 1..Len(errs) |-> Abs(errs[k])])
         IN  IF NORMALIZE_TARGET
             THEN (total * target_std) \div (Len(errs) * FixedPoint)
             ELSE total \div Len(errs)

\* lines 275-301: the directory, result.json and parameters.pt of one model
Report ==
    /\ pc = "test"
    /\ pos >= Len(TestList)
    /\ mae' = MeanAbsoluteError(errors)
    /\ results' = Append(results,
         [directory       |-> [mae |-> mae', layers |-> hyperparameters.layers],
          hyperparameters |-> hyperparameters,
          run_parameters  |-> run_parameters,
          predicted       |-> predictions,
          target          |-> [k \in 1..Len(test_ind) |-> dataset[test_ind[k] + 1].y],
          target_std      |-> target_std,
          target_mean     |-> target_mean,
          test_frames     |-> test_ind,
          train_frames    |-> train_ind,
          parameters      |-> model])
    /\ pc' = "models"
    /\ UNCHANGED <<error, cfgVars, run_parameters, fsVars, splitVars, loadVars,
                   targetVars, modelVars, epoch, pos, val_losses, predictions,
                   errors, histVars>>

\* ------------------------------------------------------------ initial states
\* lines 48-63
RunParameters(normalize_target, unseen_region, dataset_perc, validation_split, epochs, patience) ==
    [k \in {"sin_cos", "graph_type", "out_channels", "convolution", "convolutions",
            "learning_rate", "epochs", "patience", "normalize_target",
            "dataset_perc", "shuffle", "train_split", "validation_split",
            "unseen_region"} |->
       CASE k = "sin_cos" -> TRUE
         [] k = "graph_type" -> "De Bruijn"
         [] k = "out_channels" -> 4
         [] k = "convolution" -> "GraphConv"
         [] k = "convolutions" -> 3
         [] k = "learning_rate" -> IF normalize_target THEN <<1, 10000>> ELSE <<1, 1000>>
         [] k = "epochs" -> epochs
         [] k = "patience" -> patience
         [] k = "normalize_target" -> normalize_target
         [] k = "dataset_perc" -> dataset_perc
         [] k = "shuffle" -> FALSE
         [] k = "train_split" -> <<1, 10>>
         [] k = "validation_split" -> validation_split
         [] k = "unseen_region" -> unseen_region]

\* everything the script has not touched yet
Untouched ==
    /\ error = ""
    /\ indexes = <<>> /\ train_ind = <<>> /\ validation_ind = <<>> /\ test_ind = <<>>
    /\ i = 0 /\ graph_samples = <<>> /\ built = {} /\ written = {}
    /\ target = <<>> /\ target_mean = 0 /\ target_std = FixedPoint /\ dataset = <<>>
    /\ m = 0 /\ seed = 0 /\ hyperparameters = LinearHyperparameters(0)
    /\ model = 0 /\ stopping = EarlyStopping(0)
    /\ epoch = 0 /\ pos = 0 /\ val_losses = <<>> /\ predictions = <<>>
    /\ errors = <<>> /\ mae = NaN /\ results = <<>>
    /\ stepped = <<>> /\ evaluated = <<>> /\ val_history = <<>>
    /\ epochs_actual = <<>> /\ phase = "Idle"

\* the files of DATA_DIR with the files of the set missing left out
PickleName(k) == <<"pickle", k>>
JsonName(k) == <<"json", k>>
FileNames(n) ==
    { PickleName(k) : k \in 0..(n - 1) } \cup { JsonName(k) : k \in 0..(n - 1) }
      \cup { <<"target", 0>>, <<"left", 0>>, <<"right", 0>> }

\* the target file of n lines 1.0, 2.0, ..., n
RampTarget(n) == [k \in 1..n |-> k]

Files(n, missing, lines, left, right) ==
    /\ pickle_files = [k \in { x \in 0..(n - 1) : PickleName(x) \notin missing } |->
                          CachedGraph(k)]
    /\ json_files = { x \in 0..(n - 1) : JsonName(x) \notin missing }
    /\ target_file = [exists |-> <<"target", 0>> \notin missing, lines |-> lines]
    /\ left_json = [exists |-> <<"left", 0>> \notin missing, data |-> left]
    /\ right_json = [exists |-> <<"right", 0>> \notin missing, data |-> right]

\* left.json and right.json: the first half of the samples and the rest
LeftHalf(n) == PyRange(n \div 2)
RightHalf(n) == SliceFrom(PyRange(n), n \div 2)

\* one configuration of the module constants, the dict and the data directory
Configured(n, normalize_target, overwrite, region, perc, dataset_perc, validation_split, missing, left, right) ==
    /\ Untouched
    /\ N_SAMPLES = n
    /\ NORMALIZE_TARGET = normalize_target
    /\ OVERWRITE_PICKLES = overwrite
    /\ UNSEEN_REGION = region
    /\ train_perc = perc
    /\ run_parameters = RunParameters(normalize_target, region, dataset_perc,
                                      validation_split, MaxEpochs, MaxPatience)
    /\ Files(n, missing, RampTarget(n), left, right)

\* the source's fractions (0.1, 0.1) leave no training sample of MaxSamples
\* samples; (0.5, 0.25) gives the loops something to walk
SplitChoices == {<<<<1, 10>>, <<1, 10>>>>, <<<<1, 2>>, <<1, 4>>>>}

\* complete data directory, no region: both normalisation settings
InitTraining ==
    \E nt \in BOOLEAN, sp \in SplitChoices :
      Configured(MaxSamples, nt, FALSE, "None", sp[1], <<1, 1>>, sp[2], {},
                 LeftHalf(MaxSamples), RightHalf(MaxSamples))

\* a held-out region, its files present or not
InitRegion ==
    \E region \in {"left", "right"}, missing \in {{}, {<<"left", 0>>}, {<<"right", 0>>}} :
      Configured(MaxSamples, TRUE, FALSE, region, <<1, 10>>, <<1, 1>>, <<1, 10>>,
                 missing, LeftHalf(MaxSamples), RightHalf(MaxSamples))

\* data directories with up to MaxMissing files missing, both cache settings,
\* a quarter of the samples kept
InitFiles ==
    \E ow \in BOOLEAN,
       missing \in { S \in SUBSET FileNames(MaxSamples) : Cardinality(S) <= MaxMissing } :
      Configured(MaxSamples, TRUE, ow, "None", <<1, 10>>, <<1, 4>>, <<1, 10>>,
                 missing, LeftHalf(MaxSamples), RightHalf(MaxSamples))

\* the script: objective() at module level
Init ==
    /\ pc = "objective"
    /\ InitTraining \/ InitRegion \/ InitFiles

\* read_dataset(train_perc) called on its own, over the fractions and regions
Fractions == {<<0, 1>>, <<1, 10>>, <<1, 4>>, <<1, 2>>, <<3, 4>>, <<1, 1>>}

InitSplit ==
    /\ pc = "partition"
    /\ \E n \in 1..MaxSamples :
         \/ \E dp \in Fractions \ {<<0, 1>>}, tp \in Fractions, vs \in Fractions :
              Configured(n, TRUE, FALSE, "None", tp, dp, vs, {},
                         LeftHalf(n), RightHalf(n))
         \/ \E region \in {"left", "right"}, L \in SUBSET (0..(n - 1)),
               missing \in {{}, {<<"left", 0>>}, {<<"right", 0>>}} :
              Configured(n, TRUE, FALSE, region, <<1, 10>>, <<1, 1>>, <<1, 10>>,
                         missing, SortedSeq(L), SortedSeq((0..(n - 1)) \ L))

NextSplit ==
    \/ PartitionAll
    \/ PartitionRegion
    \/ PartitionRegionMissing

NextRead ==
    \/ NextSplit
    \/ LoadCached
    \/ LoadRebuild
    \/ LoadMissingJson
    \/ ReadTarget
    \/ TargetMissing
    \/ Assemble

Next ==
    \/ Objective
    \/ NextRead
    \/ DefineModels
    \/ NextModel
    \/ Finish
    \/ BeginEpoch
    \/ ExhaustBudget
    \/ TrainStep
    \/ BeginValidation
    \/ ValidationStep
    \/ CheckStopping
    \/ TestStep
    \/ Report

Spec == Init /\ [][Next]_vars

SpecSplit == InitSplit /\ [][NextSplit]_vars

\* ================================================================ claims
\* the three returned lists, one after the other
Returned == train_ind \o validation_ind \o test_ind

\* C1: without a held-out region the returned train, validation and test
\* lists are pairwise disjoint, hold no duplicate, and together are exactly
\* the indices kept by the dataset_perc cut of the shuffled range(N_SAMPLES),
\* so their lengths add up to the number of kept indices.
C1_SplitIsPartition ==
    (pc = "load" /\ UNSEEN_REGION = "None") =>
        /\ Len(indexes) = NpInt(run_parameters["dataset_perc"], N_SAMPLES)
        /\ NoDuplicates(indexes)
        /\ Range(indexes) \subseteq 0..(N_SAMPLES - 1)
        /\ NoDuplicates(Returned)
        /\ Range(Returned) = Range(indexes)
        /\ Len(train_ind) + Len(validation_ind) + Len(test_ind) = Len(indexes)

\* a cut dataset split into three non-empty parts
C1_Witness ==
    /\ pc = "load" /\ UNSEEN_REGION = "None"
    /\ Len(indexes) < N_SAMPLES
    /\ train_ind # <<>> /\ validation_ind # <<>> /\ test_ind # <<>>

\* the index list of the designated region file
RegionData == IF UNSEEN_REGION = "left" THEN left_json.data ELSE right_json.data

\* C2: with a held-out region, train_ind is exactly the complement of the
\* region in range(N_SAMPLES), validation_ind and test_ind are disjoint, cover
\* the region exactly, and have floor(n/2) and ceil(n/2) elements.
C2_RegionSplit ==
    (pc = "load" /\ UNSEEN_REGION # "None") =>
        LET R == Range(RegionData)
            n == Cardinality(R)
        IN  /\ Range(train_ind) = (0..(N_SAMPLES - 1)) \ R
            /\ NoDuplicates(train_ind)
            /\ NoDuplicates(validation_ind \o test_ind)
            /\ Range(validation_ind) \cup Range(test_ind) = R
            /\ Len(validation_ind) = n \div 2
            /\ Len(test_ind) = n - (n \div 2)
            /\ Range(train_ind) \cap R = {}

\* a region of odd size, with samples left to train on
C2_Witness ==
    /\ pc = "load" /\ UNSEEN_REGION = "left"
    /\ Len(left_json.data) = 3
    /\ train_ind # <<>>
    /\ Len(test_ind) = Len(validation_ind) + 1

\* the scenario of C6: four samples, targets 1..4, no region, everything kept,
\* training split 0.5, the configured validation split 0.1
C6_Scenario ==
    /\ pc = "load" /\ UNSEEN_REGION = "None"
    /\ N_SAMPLES = 4 /\ target_file.lines = <<1, 2, 3, 4>>
    /\ run_parameters["dataset_perc"] = <<1, 1>>
    /\ run_parameters["train_split"] = <<1, 2>>
    /\ run_parameters["validation_split"] = <<1, 10>>

\* C6 as stated: the scenario yields 2 training, 1 validation and 1 test index.
C6_AsStated ==
    C6_Scenario => Len(train_ind) = 2 /\ Len(validation_ind) = 1 /\ Len(test_ind) = 1

\* C6 amended: the scenario yields 2 training indices, no validation index
\* and 2 test indices.
C6_Amended ==
    C6_Scenario => Len(train_ind) = 2 /\ Len(validation_ind) = 0 /\ Len(test_ind) = 2

C6_Witness == C6_Scenario /\ Len(test_ind) = 2

\* read_dataset has returned and objective is at work
AfterRead ==
    pc \in {"returned", "models", "epoch", "train", "validate", "test", "done"}

\* the epoch loop of the current model is running
InEpochLoop == pc \in {"epoch", "train", "validate"}

\* the k-th checked validation loss improves on every earlier one
Improves(h, k) == k = 1 \/ \A q \in 1..(k - 1) : Less(h[k], h[q])

\* the number of consecutive checks, ending with the k-th, without improvement
Strikes(h, k) ==
    LET last == CHOOSE q \in 1..k : Improves(h, q) /\ \A r \in (q + 1)..k : ~Improves(h, r)
    IN  k - last

\* the patience of the run is exhausted by the k-th check of the history
Exhausted(h, k) == Strikes(h, k) >= run_parameters["patience"]

\* C3: a model never runs more than run_parameters["epochs"] epochs; its loop
\* ends with the first epoch whose validation loss is the patience-th in a
\* row without improvement, counted from this model's own checks only, and
\* once the loop has ended the model takes no further training step.
C3_EarlyStopping ==
    /\ [](/\ epoch <= run_parameters["epochs"]
          /\ \A k \in DOMAIN epochs_actual : epochs_actual[k] <= run_parameters["epochs"]
          /\ (InEpochLoop \/ pc = "test") => Len(val_history) <= epoch
          /\ InEpochLoop => \A k \in DOMAIN val_history : ~Exhausted(val_history, k)
          /\ phase = "StoppedEarly" =>
                /\ Len(val_history) = epoch
                /\ Exhausted(val_history, epoch)
                /\ \A k \in 1..(epoch - 1) : ~Exhausted(val_history, k)
          /\ phase = "Completed" =>
                /\ epoch = run_parameters["epochs"]
                /\ \A k \in DOMAIN val_history : ~Exhausted(val_history, k)
          /\ (pc = "epoch" /\ epoch = 0) => stopping = EarlyStopping(run_parameters["patience"]))
    /\ [][(phase \in {"StoppedEarly", "Completed"} /\ m' = m) =>
              (model' = model /\ stepped' = stepped /\ epoch' = epoch)]_vars

\* the second model stops before its budget is used up, after the first one
\* stopped early as well
C3_Witness ==
    /\ m = 2 /\ phase = "StoppedEarly"
    /\ epoch < run_parameters["epochs"]
    /\ validation_ind # <<>>
    /\ epochs_actual[1] < run_parameters["epochs"]

\* the sum of f over a finite set of sample indices
RECURSIVE AbsErrorSum(_)
AbsErrorSum(S) ==
    IF S = {} THEN 0
    ELSE LET j == CHOOSE x \in S : TRUE
         IN  Abs(model - dataset[j + 1].y) + AbsErrorSum(S \ {j})

\* C4: the reported MAE is non-negative and is the mean of |prediction -
\* target| over exactly the indices of test_ind, each once, times target_std
\* when NORMALIZE_TARGET is set and unscaled otherwise.
C4_TestMAE ==
    (pc = "models" /\ results # <<>> /\ test_ind # <<>>) =>
        LET S     == Range(test_ind)
            n     == Cardinality(S)
            total == AbsErrorSum(S)
        IN  /\ mae >= 0
            /\ Len(test_ind) = n
            /\ Len(errors) = n
            /\ evaluated = test_ind
            /\ S \cap (Range(train_ind) \cup Range(validation_ind)) = {}
            /\ mae = IF NORMALIZE_TARGET THEN (total * target_std) \div (n * FixedPoint)
                     ELSE total \div n
            /\ results[Len(results)].directory.mae = mae

\* a normalised run with test errors of both signs
C4_Witness ==
    /\ pc = "models" /\ results # <<>> /\ NORMALIZE_TARGET
    /\ Len(test_ind) >= 2
    /\ \E a, b \in DOMAIN errors : errors[a] < 0 /\ errors[b] > 0
    /\ mae > 0

\* target files that differ from the one on disk in at most one line
OtherTargetFiles ==
    { [target_file.lines EXCEPT ![k] = @ + d] :
        k \in DOMAIN target_file.lines, d \in {0, N_SAMPLES} }

\* C5: the returned target_mean and target_std depend on the training targets
\* only: a target file that agrees with the one read on every index of
\* train_ind yields the same statistics.
C5_TrainOnlyStatistics ==
    (pc \in {"assemble", "returned"} /\ NORMALIZE_TARGET) =>
        \A other \in OtherTargetFiles :
            (\A j \in Range(train_ind) : other[j + 1] = target_file.lines[j + 1]) =>
                TargetStats(ParseTarget(other, N_SAMPLES)) =
                    [mean |-> target_mean, std |-> target_std]

\* C7: the run_parameters of every written result.json hold under "epochs_run"
\* the number of epochs the model of that result actually ran.
C7_EpochsRunRecorded ==
    \A k \in DOMAIN results :
        /\ "epochs_run" \in DOMAIN results[k].run_parameters
        /\ results[k].run_parameters["epochs_run"] = epochs_actual[k]

\* the graph loaded for sample k
Loaded(k) == graph_samples[k + 1]

\* C8: with OVERWRITE_PICKLES false a present pickle is the graph used, is
\* not rebuilt and no pickle file changes; a graph is rebuilt from {i}.json
\* exactly when OVERWRITE_PICKLES is true or the pickle is missing; pickles
\* are written only when OVERWRITE_PICKLES is true; so with it false the
\* loaded graphs are determined by the unchanged cache and the records.
C8_Caching ==
    /\ [](/\ \A k \in 0..(i - 1) :
               /\ (~OVERWRITE_PICKLES /\ k \in DOMAIN pickle_files) =>
                      (Loaded(k) = pickle_files[k] /\ k \notin built)
               /\ k \in built <=> (OVERWRITE_PICKLES \/ k \notin DOMAIN pickle_files)
               /\ k \in built => Loaded(k) = BuildGraph(k)
               /\ k \in written <=> OVERWRITE_PICKLES
          /\ built \cup written \subseteq 0..(i - 1)
          /\ Len(graph_samples) = i)
    /\ [][/\ ~OVERWRITE_PICKLES => pickle_files' = pickle_files
          /\ pickle_files' # pickle_files =>
                (i' = i + 1 /\ DOMAIN pickle_files' = DOMAIN pickle_files \cup {i}
                   /\ pickle_files'[i] = BuildGraph(i))]_vars

\* a load without overwriting that took one graph from the cache and rebuilt
\* another
C8_Witness ==
    /\ pc = "returned" /\ ~OVERWRITE_PICKLES
    /\ \E a, b \in 0..(N_SAMPLES - 1) :
         /\ a \in DOMAIN pickle_files /\ Loaded(a) = CachedGraph(a)
         /\ b \notin DOMAIN pickle_files /\ b \in built

\* C9: a missing pickle is recovered from {i}.json and loading goes on; any
\* other missing file the run needs aborts it: no sample is skipped, no
\* dataset is returned, no model is trained, nothing is written.
C9_MissingFiles ==
    /\ pc = "aborted" =>
          /\ dataset = <<>> /\ results = <<>>
          /\ m = 0 /\ phase = "Idle" /\ stepped = <<>> /\ epochs_actual = <<>>
          /\ error \in {"json", "target", "left.json", "right.json"}
          /\ error = "json" => (i \notin json_files /\ ~UsesPickle(i))
          /\ error = "target" => ~target_file.exists
          /\ error = "left.json" => (UNSEEN_REGION # "None" /\ ~left_json.exists)
          /\ error = "right.json" => (UNSEEN_REGION # "None" /\ ~right_json.exists)
    /\ (pc \in {"load", "assemble"} \/ AfterRead) =>
          /\ UNSEEN_REGION # "None" => (left_json.exists /\ right_json.exists)
          /\ Len(graph_samples) = i
          /\ \A k \in 0..(i - 1) :
                /\ Loaded(k).sample = k
                /\ k \in built => k \in json_files
                /\ (~OVERWRITE_PICKLES /\ k \notin DOMAIN pickle_files) =>
                       Loaded(k) = BuildGraph(k)
    /\ (pc = "assemble" \/ AfterRead) => (target_file.exists /\ i = N_SAMPLES)
    /\ (results # <<>> \/ m > 0) => Len(dataset) = N_SAMPLES

\* a run that recovered one missing pickle and then died on a sample with
\* neither pickle nor record
C9_Witness ==
    /\ pc = "aborted" /\ error = "json"
    /\ ~OVERWRITE_PICKLES
    /\ built # {}

\* the set of training indices read_dataset returned
TrainSetReturned ==
    IF UNSEEN_REGION = "None"
    THEN Range(Slice(indexes, 0, NpInt(run_parameters["train_split"], Len(indexes))))
    ELSE (0..(N_SAMPLES - 1)) \ Range(indexes)

\* the moves of the training state machine
PhaseMoves ==
    { <<"Idle", "Training">>, <<"Idle", "Completed">>,
      <<"Training", "Validating">>,
      <<"Validating", "Training">>, <<"Validating", "StoppedEarly">>,
      <<"Validating", "Completed">>,
      <<"StoppedEarly", "Idle">>, <<"Completed", "Idle">> }

\* C10: per model the phases go Training(e), Validating(e), then
\* Training(e + 1), StoppedEarly or Completed; in an epoch every index of
\* train_ind gets exactly one optimizer step before any validation index is
\* evaluated; the reshuffle keeps the set of train_ind; validation and test
\* evaluation step nothing; no validation or test index is ever stepped; the
\* test set is evaluated only once the epoch loop has ended.
C10_TrainingPhases ==
    /\ [](/\ (pc = "load" \/ pc = "assemble" \/ AfterRead) =>
                Range(train_ind) = TrainSetReturned
          /\ \A k \in DOMAIN results : Range(results[k].train_frames) = TrainSetReturned
          /\ Range(stepped) \cap (Range(validation_ind) \cup Range(test_ind)) = {}
          /\ pc = "train" => (/\ phase = "Training"
                              /\ evaluated = <<>>
                              /\ stepped = SubSeq(train_ind, 1, pos))
          /\ pc = "validate" => (/\ phase = "Validating"
                                 /\ Len(stepped) = Len(train_ind)
                                 /\ NoDuplicates(stepped)
                                 /\ Range(stepped) = Range(train_ind)
                                 /\ evaluated = SubSeq(validation_ind, 1, pos))
          /\ pc = "test" => (/\ phase \in {"StoppedEarly", "Completed"}
                             /\ evaluated = SubSeq(test_ind, 1, pos))
          /\ (InEpochLoop /\ epoch > 0) => phase \in {"Training", "Validating"}
          /\ InEpochLoop => predictions = <<>> \/ m > 1)
    /\ [][/\ phase' # phase => <<phase, phase'>> \in PhaseMoves
          /\ (phase = "Validating" /\ phase' = "Training") => epoch' = epoch + 1
          /\ (phase = "Training" /\ phase' = "Validating") => epoch' = epoch
          /\ (phase = "Idle" /\ phase' = "Training") => epoch' = 1
          /\ pc \in {"validate", "test"} => (model' = model /\ stepped' = stepped)
          /\ (model' # model /\ m' = m) =>
                (/\ pc = "train"
                 /\ \E j \in Range(train_ind) : stepped' = Append(stepped, j))
          /\ predictions' # predictions =>
                (pc' = "test" /\ phase' \in {"StoppedEarly", "Completed"})]_vars

\* the second model, past its first epoch, validating after a step on each of
\* several training samples
C10_Witness ==
    /\ m = 2 /\ epoch >= 2 /\ pc = "validate"
    /\ Len(stepped) >= 2 /\ evaluated # <<>>
    /\ stepped # results[1].train_frames

====
